---- MODULE Spec2Model ----
(***************************************************************************)
(* json_builder.py: JsonBuilder.add(root, json_path, value) builds a JSON  *)
(* document in place by walking a list of path components.                 *)
(*                                                                         *)
(* A path string is a sequence of one-character strings.  A JSON node is a *)
(* record [t, v]: t is the Python type of the node ("dict", "list",        *)
(* "scalar", "NotSet" for an instance of the NotSet class, "object" for a  *)
(* native object json.dumps cannot encode) and v its content: a function   *)
(* from keys (character sequences) for a dict, a sequence for a list.      *)
(* A reference to a node of the tree is the list of components that leads  *)
(* to it from the root object (<<>> is the root object itself).            *)
(***************************************************************************)
EXTENDS Integers, Sequences, FiniteSets, TLC

VARIABLES
    root,            \* the object passed as root to add, mutated in place
    json_path,       \* argument of the current call
    value,           \* argument of the current call
    pc,              \* add: "idle", "walk", "returned", "raised";
                     \* the parser alone: "path", "checked", "parsed", "raised"
    component_list,  \* result of __get_path_components
    pos,             \* position of component_current in component_list
    child,           \* reference held by the local variable child
    error,           \* exception class raised by the call, or "none"
    result,          \* reference returned by the call (<<>> is root)
    root0,           \* the tree as it was when the current call started
    calls            \* number of calls made so far

vars == <<root, json_path, value, pc, component_list, pos, child, error,
          result, root0, calls>>

----------------------------------------------------------------------------
(* Bounds of the model *)

MaxCalls == 2
MaxIndex == 2
MaxComps == 3
MaxPathLen == 6

----------------------------------------------------------------------------
(* Characters *)

Digits == {"0", "1", "2", "3", "4", "5", "6", "7", "8", "9"}

LowerAX == {"a", "b", "c", "d", "e", "f", "g", "h", "i", "j", "k", "l", "m",
            "n", "o", "p", "q", "r", "s", "t", "u", "v", "w", "x"}

UpperAX == {"A", "B", "C", "D", "E", "F", "G", "H", "I", "J", "K", "L", "M",
            "N", "O", "P", "Q", "R", "S", "T", "U", "V", "W", "X"}

\* [a-zA-Z0-9]
AlnumChars == Digits \cup LowerAX \cup UpperAX \cup {"y", "z", "Y", "Z"}

\* [0-9a-xA-X\$]
ItemNameChars == Digits \cup LowerAX \cup UpperAX \cup {"$"}

DigitValue(c) ==
    CASE c = "0" -> 0 [] c = "1" -> 1 [] c = "2" -> 2 [] c = "3" -> 3
      [] c = "4" -> 4 [] c = "5" -> 5 [] c = "6" -> 6 [] c = "7" -> 7
      [] c = "8" -> 8 [] c = "9" -> 9

\* int(key) of a string of decimal digits
RECURSIVE int(_)
int(s) ==
    IF s = <<>> THEN 0
    ELSE 10 * int(SubSeq(s, 1, Len(s) - 1)) + DigitValue(s[Len(s)])

----------------------------------------------------------------------------
(* JSON nodes *)

EmptyDict == [t |-> "dict", v |-> <<>>]
EmptyList == [t |-> "list", v |-> <<>>]
Scalar(s) == [t |-> "scalar", v |-> s]
NotSetInstance == [t |-> "NotSet", v |-> "NotSet"]
NativeObject == [t |-> "object", v |-> "object"]

IsDict(node) == node.t = "dict"
IsList(node) == node.t = "list"
IsNotSet(node) == node.t = "NotSet"

\* len(root) of a list
len(node) == Len(node.v)

\* key in root, for a dict
HasKey(node, key) == key \in DOMAIN node.v

\* root[key] = x, for a dict
DictSet(node, key, x) ==
    [node EXCEPT !.v = [k \in (DOMAIN node.v) \cup {key} |->
                           IF k = key THEN x ELSE node.v[k]]]

\* root.append(x), for a list
ListAppend(node, x) == [node EXCEPT !.v = Append(node.v, x)]

\* root[i] = x, for a list and 0 <= i < len(root)
ListSet(node, i, x) == [node EXCEPT !.v[i + 1] = x]

\* The children of a container, as a set
Children(node) ==
    IF IsDict(node) \/ IsList(node)
    THEN {node.v[k] : k \in DOMAIN node.v}
    ELSE {}

\* json.dumps(root) does not raise TypeError
RECURSIVE Serializable(_)
Serializable(node) ==
    CASE node.t = "scalar" -> TRUE
      [] node.t = "dict" -> \A c \in Children(node) : Serializable(c)
      [] node.t = "list" -> \A c \in Children(node) : Serializable(c)
      [] OTHER -> FALSE

\* Some node of the tree is an instance of NotSet
RECURSIVE HoldsNotSet(_)
HoldsNotSet(node) ==
    IsNotSet(node) \/ \E c \in Children(node) : HoldsNotSet(c)

----------------------------------------------------------------------------
(* Path components *)

ComponentKey(key) == [cls |-> "ComponentKey", key |-> key]
ComponentIndex(key) == [cls |-> "ComponentIndex", key |-> int(key)]

IsComponentKey(c) == c.cls = "ComponentKey"
IsComponentIndex(c) == c.cls = "ComponentIndex"

\* The absent component: next(component_iter, None)
None == [cls |-> "None", key |-> "None"]

\* root[component.key], for the container root
Item(node, c) == IF IsComponentIndex(c) THEN node.v[c.key + 1] ELSE node.v[c.key]

\* The node a reference designates
RECURSIVE Deref(_, _)
Deref(tree, ref) ==
    IF ref = <<>> THEN tree ELSE Deref(Item(tree, Head(ref)), Tail(ref))

\* The tree after the node a reference designates is mutated into node
RECURSIVE Mutate(_, _, _)
Mutate(tree, ref, node) ==
    IF ref = <<>> THEN node
    ELSE LET c == Head(ref)
             sub == Mutate(Item(tree, c), Tail(ref), node)
         IN  IF IsComponentIndex(c) THEN ListSet(tree, c.key, sub)
             ELSE DictSet(tree, c.key, sub)

----------------------------------------------------------------------------
(* JsonBuilder.__check_path *)

\* One step of the matcher of ^\$((\.[a-zA-Z0-9]+)*((\[[0-9]+\])+)*)* :
\* "start" before the $, "open" where a key or an index may start (after the
\* $ or a ]), "dot" after a dot, "key" inside a key, "lbr" after a [,
\* "num" inside an index, "fail" when no match is possible.
RegexStep(q, c) ==
    CASE q = "start" /\ c = "$" -> "open"
      [] q \in {"open", "key"} /\ c = "." -> "dot"
      [] q \in {"open", "key"} /\ c = "[" -> "lbr"
      [] q \in {"dot", "key"} /\ c \in AlnumChars -> "key"
      [] q \in {"lbr", "num"} /\ c \in Digits -> "num"
      [] q = "num" /\ c = "]" -> "open"
      [] OTHER -> "fail"

RECURSIVE RegexRun(_, _)
RegexRun(q, s) ==
    IF s = <<>> THEN q ELSE RegexRun(RegexStep(q, Head(s)), Tail(s))

\* re.fullmatch(json_path_regex, json_path)
check_path(path) == RegexRun("start", path) \in {"open", "key"}

----------------------------------------------------------------------------
(* JsonBuilder.__get_path_components *)

\* json_path.split(".")
RECURSIVE split(_)
split(s) ==
    IF \A i \in 1..Len(s) : s[i] # "." THEN <<s>>
    ELSE LET i == CHOOSE j \in 1..Len(s) :
                      s[j] = "." /\ \A k \in 1..(j - 1) : s[k] # "."
         IN  <<SubSeq(s, 1, i - 1)>> \o split(SubSeq(s, i + 1, Len(s)))

\* Length of the longest prefix of item made of characters of cs
RECURSIVE PrefixLen(_, _)
PrefixLen(item, cs) ==
    IF item # <<>> /\ Head(item) \in cs THEN 1 + PrefixLen(Tail(item), cs) ELSE 0

\* re.fullmatch(r"[0-9a-xA-X\$]+\[.*\]$", item)
MatchListIndexes(item) ==
    LET n == PrefixLen(item, ItemNameChars)
    IN  /\ n >= 1
        /\ Len(item) >= n + 2
        /\ item[n + 1] = "["
        /\ item[Len(item)] = "]"

\* The first group of re.match(r"([0-9a-xA-X\$]+)(\[.*\])$", item)
MatchKey(item) == SubSeq(item, 1, PrefixLen(item, ItemNameChars))

\* re.findall(r"\d+", item): the maximal runs of digits, left to right
RECURSIVE findall_digits(_)
findall_digits(item) ==
    IF item = <<>> THEN <<>>
    ELSE LET n == PrefixLen(item, Digits)
         IN  IF n = 0 THEN findall_digits(Tail(item))
             ELSE <<SubSeq(item, 1, n)>>
                      \o findall_digits(SubSeq(item, n + 1, Len(item)))

ItemComponents(item) ==
    IF MatchListIndexes(item)
    THEN <<ComponentKey(MatchKey(item))>>
             \o [i \in 1..Len(findall_digits(item)) |->
                     ComponentIndex(findall_digits(item)[i])]
    ELSE <<ComponentKey(item)>>

RECURSIVE Flatten(_)
Flatten(ss) == IF ss = <<>> THEN <<>> ELSE Head(ss) \o Flatten(Tail(ss))

get_path_components(path) ==
    Flatten([i \in 1..Len(split(path)) |-> ItemComponents(split(path)[i])])

----------------------------------------------------------------------------
(* ComponentKey.add and ComponentIndex.add                                 *)
(*                                                                         *)
(* Each takes the node the argument root refers to and gives               *)
(*   raise: the exception raised ("none" when the method returns),         *)
(*   node:  that node as the method leaves it,                             *)
(*   down:  TRUE when the method returns root[self.key], FALSE when it     *)
(*          returns root itself.                                           *)
(***************************************************************************)

NoError == [cls |-> "none", msg |-> "none"]
Exception(cls, msg) == [cls |-> cls, msg |-> msg]

Outcome(raise, node, down) == [raise |-> raise, node |-> node, down |-> down]

\* KeyDefault with the type of the next component ignored
KeyDefault_AlwaysList(component_next) == EmptyList

\* The container a missing key is initialised with
KeyDefault(component_next) ==
    IF IsComponentIndex(component_next) THEN EmptyList ELSE EmptyDict

\* ComponentKey_add with the $ test ahead of the isinstance test
ComponentKey_add_SkipFirst(self, node, component_next, val) ==
    IF self.key = <<"$">>
    THEN Outcome(NoError, node, FALSE)
    ELSE IF ~IsDict(node)
    THEN Outcome(Exception("TypeError", "object is not a dictionary"), node, FALSE)
    ELSE IF ~IsNotSet(val)
    THEN Outcome(NoError, DictSet(node, self.key, val), FALSE)
    ELSE IF ~HasKey(node, self.key)
    THEN Outcome(NoError, DictSet(node, self.key, KeyDefault(component_next)), TRUE)
    ELSE Outcome(NoError, node, TRUE)

\* ComponentKey_add without the $ test
ComponentKey_add_NoSkip(self, node, component_next, val) ==
    IF ~IsDict(node)
    THEN Outcome(Exception("TypeError", "object is not a dictionary"), node, FALSE)
    ELSE IF ~IsNotSet(val)
    THEN Outcome(NoError, DictSet(node, self.key, val), FALSE)
    ELSE IF ~HasKey(node, self.key)
    THEN Outcome(NoError, DictSet(node, self.key, KeyDefault(component_next)), TRUE)
    ELSE Outcome(NoError, node, TRUE)

ComponentKey_add(self, node, component_next, val) ==
    IF ~IsDict(node)
    THEN Outcome(Exception("TypeError", "object is not a dictionary"), node, FALSE)
    ELSE IF self.key = <<"$">>
    THEN Outcome(NoError, node, FALSE)
    ELSE IF ~IsNotSet(val)
    THEN Outcome(NoError, DictSet(node, self.key, val), FALSE)
    ELSE IF ~HasKey(node, self.key)
    THEN Outcome(NoError, DictSet(node, self.key, KeyDefault(component_next)), TRUE)
    ELSE Outcome(NoError, node, TRUE)

\* IndexTooBig with the bound off by one
IndexTooBig_OffByOne(node, key) == len(node) + 1 < key

\* len(root) < self.key
IndexTooBig(node, key) == len(node) < key

\* root.append(NotSet()) when len(root) == self.key
Grow(node, key) ==
    IF len(node) = key THEN ListAppend(node, NotSetInstance) ELSE node

\* Fill with the value appended instead of assigned
Fill_AppendsValue(node, key, component_next, val) ==
    IF ~IsNotSet(val) THEN ListAppend(node, val)
    ELSE IF IsComponentKey(component_next) THEN ListAppend(node, EmptyDict)
    ELSE ListAppend(node, EmptyList)

\* The if / elif / else that follows the growth of the list
Fill(node, key, component_next, val) ==
    IF ~IsNotSet(val) THEN ListSet(node, key, val)
    ELSE IF IsComponentKey(component_next) THEN ListAppend(node, EmptyDict)
    ELSE ListAppend(node, EmptyList)

ComponentIndex_add(self, node, component_next, val) ==
    IF ~IsList(node)
    THEN Outcome(Exception("TypeError", "object is not a list"), node, FALSE)
    ELSE IF IndexTooBig(node, self.key)
    THEN Outcome(Exception("IndexError", "Index to big"), node, FALSE)
    ELSE Outcome(NoError,
                 Fill(Grow(node, self.key), self.key, component_next, val),
                 TRUE)

\* component_current.add(child, component_next, component_value)
Component_add(self, node, component_next, val) ==
    IF IsComponentKey(self)
    THEN ComponentKey_add(self, node, component_next, val)
    ELSE ComponentIndex_add(self, node, component_next, val)

----------------------------------------------------------------------------
(* Arguments of the calls *)

Keys == {<<"a">>, <<"b">>}

DigitChar(i) == <<"0", "1", "2", "3", "4", "5", "6", "7", "8", "9">>[i + 1]

\* The pieces a path is written with: .key and [index]
Tokens ==
    {<<".">> \o k : k \in Keys} \cup {<<"[", DigitChar(i), "]">> : i \in 0..MaxIndex}

KeyTokens == {<<".">> \o k : k \in Keys}

TokenLists == UNION {[1..n -> Tokens] : n \in 0..(MaxComps - 1)}

\* Paths of the grammar: $ alone, $ followed by an index, and $ followed by a
\* key and then keys and indexes, at most MaxComps of them in all
GoodPaths ==
    {<<"$">>}
        \cup {<<"$", "[", DigitChar(i), "]">> : i \in 0..MaxIndex}
        \cup {<<"$">> \o k \o Flatten(ts) : k \in KeyTokens, ts \in TokenLists}

\* "a.b", "$a", "$.", "$.a[]", ""
BadPaths ==
    {<<"a", ".", "b">>, <<"$", "a">>, <<"$", ".">>,
     <<"$", ".", "a", "[", "]">>, <<>>}

Paths == GoodPaths \cup BadPaths

Values == {Scalar("v"), Scalar("w"), EmptyDict, EmptyList, NativeObject}

\* The objects a caller may start from
Roots ==
    {EmptyDict, EmptyList, Scalar("s"), NativeObject,
     DictSet(EmptyDict, <<"a">>,
             ListAppend(ListAppend(EmptyList, Scalar("v")), Scalar("w")))}

----------------------------------------------------------------------------
(* JsonBuilder.add *)

Init ==
    /\ root \in Roots
    /\ json_path = <<>>
    /\ value = Scalar("v")
    /\ pc = "idle"
    /\ component_list = <<>>
    /\ pos = 1
    /\ child = <<>>
    /\ error = NoError
    /\ result = <<>>
    /\ root0 = root
    /\ calls = 0

\* Validate without the check of value
Validate_NoValueCheck(tree, path, val) ==
    IF ~Serializable(tree)
    THEN Exception("TypeError", "is not JSON serializable")
    ELSE IF ~check_path(path)
    THEN Exception("ValueError", "Invalid json path")
    ELSE NoError

\* The exception the three checks that open add raise, if any
Validate(tree, path, val) ==
    IF ~Serializable(tree)
    THEN Exception("TypeError", "is not JSON serializable")
    ELSE IF ~check_path(path)
    THEN Exception("ValueError", "Invalid json path")
    ELSE IF ~Serializable(val)
    THEN Exception("TypeError", "is not JSON serializable")
    ELSE NoError

\* A call of add, up to the loop
Call(path, val) ==
    /\ pc = "idle"
    /\ calls < MaxCalls
    /\ calls' = calls + 1
    /\ json_path' = path
    /\ value' = val
    /\ root0' = root
    /\ root' = root
    /\ result' = <<>>
    /\ child' = <<>>
    /\ pos' = 1
    /\ error' = Validate(root, path, val)
    /\ IF Validate(root, path, val) = NoError
       THEN /\ component_list' = get_path_components(path)
            /\ pc' = "walk"
       ELSE /\ component_list' = <<>>
            /\ pc' = "raised"

component_current == component_list[pos]

component_next ==
    IF pos + 1 <= Len(component_list) THEN component_list[pos + 1] ELSE None

\* NotSet() if component_next else value
component_value == IF component_next.cls # "None" THEN NotSetInstance ELSE value

\* One iteration of the while loop
Step ==
    /\ pc = "walk"
    /\ pos <= Len(component_list)
    /\ LET out == Component_add(component_current, Deref(root, child),
                                component_next, component_value)
       IN  /\ root' = Mutate(root, child, out.node)
           /\ error' = out.raise
           /\ IF out.raise = NoError
              THEN /\ child' = IF out.down THEN Append(child, component_current)
                                ELSE child
                   /\ pos' = pos + 1
                   /\ pc' = "walk"
              ELSE /\ child' = child
                   /\ pos' = pos
                   /\ pc' = "raised"
    /\ UNCHANGED <<json_path, value, component_list, result, root0, calls>>

\* The loop ends: return root
Return ==
    /\ pc = "walk"
    /\ pos > Len(component_list)
    /\ pc' = "returned"
    /\ result' = <<>>
    /\ UNCHANGED <<root, json_path, value, component_list, pos, child, error,
                   root0, calls>>

\* The call has ended, by return or by raise: its locals are gone, the
\* caller keeps the object it passed as root
Exit ==
    /\ pc \in {"returned", "raised"}
    /\ pc' = "idle"
    /\ json_path' = <<>>
    /\ value' = Scalar("v")
    /\ component_list' = <<>>
    /\ pos' = 1
    /\ child' = <<>>
    /\ error' = NoError
    /\ result' = <<>>
    /\ root0' = root
    /\ UNCHANGED <<root, calls>>

Next ==
    \/ \E path \in Paths, val \in Values : Call(path, val)
    \/ Step
    \/ Return
    \/ Exit

Spec == Init /\ [][Next]_vars

----------------------------------------------------------------------------
(* The parser alone: __check_path, then __get_path_components, on every    *)
(* string of at most MaxPathLen characters of ParseAlphabet.               *)

ParseAlphabet == {"$", ".", "[", "]", "a", "y", "1"}

Strings == UNION {[1..n -> ParseAlphabet] : n \in 0..MaxPathLen}

InitParse ==
    /\ json_path \in Strings
    /\ pc = "path"
    /\ root = EmptyDict
    /\ value = Scalar("v")
    /\ component_list = <<>>
    /\ pos = 1
    /\ child = <<>>
    /\ error = NoError
    /\ result = <<>>
    /\ root0 = EmptyDict
    /\ calls = 0

CheckPath ==
    /\ pc = "path"
    /\ IF check_path(json_path)
       THEN pc' = "checked" /\ error' = NoError
       ELSE pc' = "raised" /\ error' = Exception("ValueError", "Invalid json path")
    /\ UNCHANGED <<root, json_path, value, component_list, pos, child, result,
                   root0, calls>>

GetPathComponents ==
    /\ pc = "checked"
    /\ component_list' = get_path_components(json_path)
    /\ pc' = "parsed"
    /\ UNCHANGED <<root, json_path, value, pos, child, error, result, root0,
                   calls>>

NextParse == CheckPath \/ GetPathComponents

ParseSpec == InitParse /\ [][NextParse]_vars

----------------------------------------------------------------------------
(* Claims *)

SameComponents(a, b) ==
    /\ Len(a) = Len(b)
    /\ \A i \in 1..Len(a) : a[i].cls = b[i].cls /\ a[i].key = b[i].key

\* The components the grammar gives a path: one Key for the $ and for each
\* .name, one Index for each [digits], in the order they are written
RECURSIVE GrammarComponents(_)
GrammarComponents(s) ==
    IF s = <<>> THEN <<>>
    ELSE IF Head(s) = "$" THEN <<ComponentKey(<<"$">>)>> \o GrammarComponents(Tail(s))
    ELSE IF Head(s) = "."
    THEN LET n == PrefixLen(Tail(s), AlnumChars)
         IN  <<ComponentKey(SubSeq(s, 2, n + 1))>>
                 \o GrammarComponents(SubSeq(s, n + 2, Len(s)))
    ELSE LET n == PrefixLen(Tail(s), Digits)
         IN  <<ComponentIndex(SubSeq(s, 2, n + 1))>>
                 \o GrammarComponents(SubSeq(s, n + 3, Len(s)))

\* C8: for every path of the grammar the parser gives one Key per segment
\* (the name before the brackets, or the whole segment when it has none) and
\* one Index per bracketed integer, in the order they are written.
C8_ParserFollowsGrammar ==
    pc = "parsed" => SameComponents(component_list, GrammarComponents(json_path))

----------------------------------------------------------------------------
(* Claims about add *)

Done == pc \in {"returned", "raised"}

Missing == [t |-> "missing", v |-> "missing"]

\* root[c.key] when the node holds it, Missing otherwise
Lookup1(node, c) ==
    IF IsComponentKey(c)
    THEN IF IsDict(node) /\ HasKey(node, c.key) THEN node.v[c.key] ELSE Missing
    ELSE IF IsList(node) /\ c.key < len(node) THEN node.v[c.key + 1] ELSE Missing

RECURSIVE Lookup(_, _)
Lookup(tree, ref) ==
    IF ref = <<>> THEN tree ELSE Lookup(Lookup1(tree, Head(ref)), Tail(ref))

KeyLists == UNION {[1..n -> Keys] : n \in 1..MaxComps}

\* The text $.k1.k2...kn
DottedPath(ks) == <<"$">> \o Flatten([i \in 1..Len(ks) |-> <<".">> \o ks[i]])

\* The reference root[k1][k2]...[kn]
KeyRef(ks) == [i \in 1..Len(ks) |-> ComponentKey(ks[i])]

\* C1: add({}, "$.k1...kn", v) returns the root it was given, with a dict
\* at each of k1..k(n-1) and v at root[k1]...[kn].
C1_DottedPathSetsValue ==
    \A ks \in KeyLists :
        (Done /\ root0 = EmptyDict /\ json_path = DottedPath(ks)
              /\ Serializable(value))
        => /\ pc = "returned"
           /\ result = <<>>
           /\ \A n \in 1..(Len(ks) - 1) : IsDict(Lookup(root, SubSeq(KeyRef(ks), 1, n)))
           /\ Lookup(root, KeyRef(ks)) = value

C1_Witness ==
    /\ pc = "returned"
    /\ root0 = EmptyDict
    /\ json_path = DottedPath(<<(<<"a">>), (<<"b">>), (<<"a">>)>>)
    /\ value = Scalar("w")
    /\ Lookup(root, KeyRef(<<(<<"a">>), (<<"b">>), (<<"a">>)>>)) = Scalar("w")

\* The text $.a[i]
IndexPath(i) == <<"$", ".", "a", "[", DigitChar(i), "]">>

\* The list at root["a"], the empty list when root is {}
ListAtA(tree) ==
    IF tree = EmptyDict THEN <<>> ELSE tree.v[<<"a">>].v

HasListAtA(tree) ==
    /\ IsDict(tree)
    /\ tree = EmptyDict \/ (HasKey(tree, <<"a">>) /\ IsList(tree.v[<<"a">>]))

\* C2: on a root that is {} or holds a list of n elements at "a",
\* add(root, "$.a[n]", v) appends v to that list and, for i < n,
\* add(root, "$.a[i]", w) replaces element i alone; nothing else changes.
C2_IndexAppendsThenOverwrites ==
    \A i \in 0..MaxIndex :
        (Done /\ json_path = IndexPath(i) /\ Serializable(root0)
              /\ Serializable(value) /\ HasListAtA(root0)
              /\ i <= Len(ListAtA(root0)))
        => /\ pc = "returned"
           /\ result = <<>>
           /\ root = DictSet(root0, <<"a">>,
                  [t |-> "list",
                   v |-> IF i = Len(ListAtA(root0))
                         THEN Append(ListAtA(root0), value)
                         ELSE [ListAtA(root0) EXCEPT ![i + 1] = value]])

C2_Witness ==
    /\ pc = "returned"
    /\ calls = 2
    /\ json_path = IndexPath(1)
    /\ root0 = DictSet(EmptyDict, <<"a">>, ListAppend(EmptyList, Scalar("v")))
    /\ root = DictSet(EmptyDict, <<"a">>,
                      ListAppend(ListAppend(EmptyList, Scalar("v")), Scalar("w")))

\* C3: once a call has ended, by a return or by an exception, no node of the
\* tree is an instance of NotSet.
C3_NoNotSetLeaks == Done => ~HoldsNotSet(root)

Walking == pc = "walk" /\ pos <= Len(component_list)

\* The node component_current is applied to
Applied == Deref(root, child)

\* C4: an Index component applied to a list shorter than its index raises
\* IndexError and appends nothing.
C4_GapStep ==
    (Walking /\ IsComponentIndex(component_current) /\ IsList(Applied)
             /\ len(Applied) < component_current.key)
    => (pc' = "raised" /\ error'.cls = "IndexError" /\ root' = root)

\* C4: add(root, "$.a[2]", v) raises IndexError when root["a"] is a list of
\* no or one element, and leaves the tree as it was.
C4_GapExample ==
    (Done /\ json_path = IndexPath(2) /\ Serializable(root0)
          /\ Serializable(value) /\ IsDict(root0) /\ HasKey(root0, <<"a">>)
          /\ IsList(root0.v[<<"a">>]) /\ len(root0.v[<<"a">>]) <= 1)
    => (pc = "raised" /\ error.cls = "IndexError" /\ root = root0)

\* C4: both: every step over a gap raises IndexError and appends nothing,
\* and add(root, "$.a[2]", v) on a list of no or one element ends with it.
C4_IndexGapRaises == [][C4_GapStep]_vars /\ []C4_GapExample

C4_Witness ==
    /\ pc = "raised"
    /\ error.cls = "IndexError"
    /\ json_path = IndexPath(2)
    /\ root0 = DictSet(EmptyDict, <<"a">>, ListAppend(EmptyList, Scalar("v")))
    /\ root = root0

\* C5: a Key component applied to a node that is no dict, and an Index
\* component applied to a node that is no list, raise TypeError and leave
\* the tree as it was.
C5_MismatchStep ==
    (Walking /\ \/ IsComponentKey(component_current) /\ ~IsDict(Applied)
                \/ IsComponentIndex(component_current) /\ ~IsList(Applied))
    => (pc' = "raised" /\ error'.cls = "TypeError" /\ root' = root)

\* C5: every step of every walk that meets such a mismatch raises TypeError
\* and leaves the tree as it was.
C5_TypeMismatchRaises == [][C5_MismatchStep]_vars

C5_Witness ==
    /\ pc = "raised"
    /\ error = Exception("TypeError", "object is not a list")
    /\ pos = 3
    /\ IsDict(Applied)
    /\ root = root0

InvalidPath == Exception("ValueError", "Invalid json path")
NotSerializable == Exception("TypeError", "is not JSON serializable")

C7_BareRootOnDict ==
    (Done /\ json_path = <<"$">> /\ Serializable(root0) /\ Serializable(value))
    => /\ root = root0
       /\ IsDict(root0) => (pc = "returned" /\ result = <<>>)
       /\ ~IsDict(root0) =>
              (pc = "raised"
                 /\ error = Exception("TypeError", "object is not a dictionary"))

\* C7 as stated: for every serializable root, add(root, "$", v) returns
\* root with its content unchanged.
C7_AsStated ==
    (Done /\ json_path = <<"$">> /\ Serializable(root0) /\ Serializable(value))
    => (pc = "returned" /\ result = <<>> /\ root = root0)

C7_Witness ==
    /\ pc = "returned"
    /\ json_path = <<"$">>
    /\ value = Scalar("w")
    /\ root0 # EmptyDict
    /\ IsDict(root0)
    /\ root = root0

Intermediate == component_next.cls # "None"

\* C9: an intermediate Index component whose index is the length of the
\* list grows the list by one element, an empty dict before a Key and an
\* empty list before an Index, and the walk goes down into that element.
C9_GrowStep ==
    (Walking /\ IsComponentIndex(component_current) /\ Intermediate
             /\ IsList(Applied) /\ len(Applied) = component_current.key)
    => /\ pc' = "walk"
       /\ SameComponents(child', Append(child, component_current))
       /\ Lookup(root', child) =
              ListAppend(Applied, IF IsComponentKey(component_next)
                                  THEN EmptyDict ELSE EmptyList)

\* C9: every intermediate Index step at the end of its list grows the list
\* by exactly one new container and goes down into it.
C9_IntermediateIndexGrowsByOne == [][C9_GrowStep]_vars

\* C10: an intermediate Index component whose index is below the length of
\* the list leaves the list as it was, and the walk goes down into the
\* element at that index.
C10_DescendStep ==
    (Walking /\ IsComponentIndex(component_current) /\ Intermediate
             /\ IsList(Applied) /\ component_current.key < len(Applied))
    => /\ pc' = "walk"
       /\ SameComponents(child', Append(child, component_current))
       /\ root' = root

\* C10: every intermediate Index step inside its list leaves the list
\* unchanged and goes down into the existing element.
C10_IntermediateIndexKeepsList == [][C10_DescendStep]_vars

====
